---- MODULE Spec2Model ----
(***************************************************************************)
(* Model of src/app.py: the Streamlit "Network Root Cause Analyst".        *)
(*                                                                         *)
(* Text is modelled at the character level: an incident description, a    *)
(* category tag and a keyword are sequences of one-character strings, so  *)
(* that lower(), strip(), replace() and the substring test `kw in text`   *)
(* are computed as Python computes them.  Messages (prompt, UI messages,  *)
(* reports) are sequences of atoms: the literal pieces of an f-string are *)
(* one atom each, interpolated values contribute their own atoms.         *)
(***************************************************************************)
EXTENDS Naturals, Sequences, FiniteSets, TLC

VARIABLES
    GOOGLE_API_KEY,   \* app.py:13-16, "" when not configured
    incident,         \* the incident description (text area / argument)
    caller,           \* who invoked agent_root_cause_analysis
    pc,               \* position of the run inside agent_root_cause_analysis
    incident_type,    \* local of agent_root_cause_analysis (line 71)
    context,          \* local of agent_root_cause_analysis (line 78)
    prompt,           \* local of agent_root_cause_analysis (line 89)
    response,         \* what the backend does with the POST of line 121
    report,           \* the value agent_root_cause_analysis returns
    calls,            \* number of requests.post calls made by the current run
    ui,               \* the st.* messages written by the current script run
    prev              \* cause and report of the last finished failed run

vars == <<GOOGLE_API_KEY, incident, caller, pc, incident_type, context,
          prompt, response, report, calls, ui, prev>>

-----------------------------------------------------------------------------
(* Bounds *)

\* Pipeline runs draw the incident from texts of at most this many fragments.
MaxIncidentFrags == 1

\* The classifier is applied to texts of at most this many fragments.
MaxFrags == 2

-----------------------------------------------------------------------------
(* Characters and strings *)

UpperCase == <<"A","B","C","D","E","F","G","H","I","J","K","L","M",
               "N","O","P","Q","R","S","T","U","V","W","X","Y","Z">>
LowerCase == <<"a","b","c","d","e","f","g","h","i","j","k","l","m",
               "n","o","p","q","r","s","t","u","v","w","x","y","z">>

Whitespace == {" ", "\t", "\n"}

\* str.lower() on one character
LowerChar(c) ==
    IF \E i \in DOMAIN UpperCase : UpperCase[i] = c
    THEN LowerCase[CHOOSE i \in DOMAIN UpperCase : UpperCase[i] = c]
    ELSE c

\* str.lower()
Lower(s) == [i \in DOMAIN s |-> LowerChar(s[i])]

\* Python's `kw in s` on strings
Contains(s, kw) ==
    \E i \in 1..(Len(s) + 1) :
        /\ i + Len(kw) - 1 <= Len(s)
        /\ SubSeq(s, i, i + Len(kw) - 1) = kw

\* str.strip()
Strip(s) ==
    LET keep == {i \in DOMAIN s : s[i] \notin Whitespace}
    IN  IF keep = {} THEN << >>
        ELSE LET lo == CHOOSE i \in keep : \A j \in keep : i <= j
                 hi == CHOOSE i \in keep : \A j \in keep : j <= i
             IN  SubSeq(s, lo, hi)

\* str.replace('_', ' ')
ReplaceUnderscore(s) == [i \in DOMAIN s |-> IF s[i] = "_" THEN " " ELSE s[i]]

-----------------------------------------------------------------------------
(* Keywords and category tags of predict_incident_type *)

kw_latency     == <<"l","a","t","e","n","c","y">>
kw_slow        == <<"s","l","o","w">>
kw_packet      == <<"p","a","c","k","e","t">>
kw_drop        == <<"d","r","o","p">>
kw_unreachable == <<"u","n","r","e","a","c","h","a","b","l","e">>
kw_down        == <<"d","o","w","n">>

HIGH_LATENCY        == <<"h","i","g","h"," ","l","a","t","e","n","c","y">>
PACKET_LOSS         == <<"p","a","c","k","e","t"," ","l","o","s","s">>
SERVICE_UNREACHABLE == <<"s","e","r","v","i","c","e"," ",
                         "u","n","r","e","a","c","h","a","b","l","e">>
UNKNOWN             == <<"u","n","k","n","o","w","n">>

\* Faulty variant: the packet rule is tried before the latency rule.
predict_packet_first(incident_description) ==
    LET d == Lower(incident_description)
    IN  IF Contains(d, kw_packet) \/ Contains(d, kw_drop) THEN PACKET_LOSS
        ELSE IF Contains(d, kw_latency) \/ Contains(d, kw_slow) THEN HIGH_LATENCY
        ELSE IF Contains(d, kw_unreachable) \/ Contains(d, kw_down)
             THEN SERVICE_UNREACHABLE
        ELSE UNKNOWN

\* Faulty variant: the final else branch is missing (the function returns None).
predict_no_fallback(incident_description) ==
    LET d == Lower(incident_description)
    IN  IF Contains(d, kw_latency) \/ Contains(d, kw_slow) THEN HIGH_LATENCY
        ELSE IF Contains(d, kw_packet) \/ Contains(d, kw_drop) THEN PACKET_LOSS
        ELSE IF Contains(d, kw_unreachable) \/ Contains(d, kw_down)
             THEN SERVICE_UNREACHABLE
        ELSE << >>

predict_incident_type(incident_description) ==
    LET d == Lower(incident_description)
    IN  IF Contains(d, kw_latency) \/ Contains(d, kw_slow) THEN HIGH_LATENCY
        ELSE IF Contains(d, kw_packet) \/ Contains(d, kw_drop) THEN PACKET_LOSS
        ELSE IF Contains(d, kw_unreachable) \/ Contains(d, kw_down)
             THEN SERVICE_UNREACHABLE
        ELSE UNKNOWN

-----------------------------------------------------------------------------
(* Knowledge base *)

KNOWLEDGE_BASE ==
    (HIGH_LATENCY :>
        [title |-> "High Network Latency Troubleshooting Guide",
         content |-> "High latency can be caused by network congestion, ...",
         actionable_intelligence |->
            "Action: Investigate firewall rules for any recent changes ..."])
    @@ (PACKET_LOSS :>
        [title |-> "Network Packet Loss Analysis",
         content |-> "Packet loss indicates dropped packets during transmission. ...",
         actionable_intelligence |->
            "Action: Ping network hops to isolate the area of packet loss ..."])
    @@ (SERVICE_UNREACHABLE :>
        [title |-> "Service Unreachable Troubleshooting",
         content |-> "A 'service unreachable' error suggests a problem with DNS ...",
         actionable_intelligence |->
            "Action: Perform a DNS lookup and verify the service is running. ..."])

DEFAULT_RECORD ==
    [title |-> "General Network Troubleshooting",
     content |-> "No specific match found in the knowledge base. ...",
     actionable_intelligence |->
        "Action: Start with basic checks like connectivity, device status, ..."]

\* Faulty variant: KNOWLEDGE_BASE.get(tag, {}) - a miss yields a record without fields.
lookup_no_default(tag) ==
    IF tag \in DOMAIN KNOWLEDGE_BASE THEN KNOWLEDGE_BASE[tag]
    ELSE [missing |-> "None"]

\* KNOWLEDGE_BASE.get(incident_type, {default record})
lookup(tag) ==
    IF tag \in DOMAIN KNOWLEDGE_BASE THEN KNOWLEDGE_BASE[tag]
    ELSE DEFAULT_RECORD

-----------------------------------------------------------------------------
(* Inputs *)

\* Pieces the incident descriptions are put together from: every keyword, in
\* lower, upper or mixed case, pieces that form a keyword only when joined
\* ("s" + "low"), and text without any keyword.
Fragments ==
    { <<"s","l","o","w">>,
      <<"S","l","O","w">>,
      <<"l","a","t","e","n","c","y">>,
      <<"L","A","T","E","N","C","Y">>,
      <<"p","a","c","k","e","t">>,
      <<"D","r","o","p">>,
      <<"u","n","r","e","a","c","h","a","b","l","e">>,
      <<"D","O","W","N">>,
      <<"s">>,
      <<"l","o","w">>,
      <<"n","e","t">>,
      <<" ">>,
      <<"\n">> }

\* The pieces the pipeline runs draw their incident from: a keyword of each
\* rule, text without a keyword, blank text.
IncidentFragments ==
    { <<"S","l","O","w">>,
      <<"p","a","c","k","e","t">>,
      <<"D","O","W","N">>,
      <<"s">>,
      <<"l","o","w">>,
      <<"n","e","t">>,
      <<" ">> }

\* The texts made of at most n pieces of F
RECURSIVE Texts(_, _)
Texts(F, n) ==
    IF n = 0 THEN { << >> }
    ELSE LET T == Texts(F, n - 1) IN T \cup { t \o f : t \in T, f \in F }

IncidentTexts == Texts(IncidentFragments, MaxIncidentFrags)

\* Values of the credential: absent, or a key.
Keys == {"", "AIza-key-1"}

\* Texts a successful backend response can carry.
GeneratedTexts == { <<"Root cause: X">>, <<"**Identified Problem:** ...">> }

-----------------------------------------------------------------------------
(* Messages *)

MODEL_NAME == "gemini-2.0-flash-lite"

\* f"https://.../models/{MODEL_NAME}:generateContent?key={GOOGLE_API_KEY}"
API_URL ==
    <<"https://generativelanguage.googleapis.com/v1beta/models/", MODEL_NAME,
      ":generateContent?key=", GOOGLE_API_KEY>>

Msg(kind, text) == [kind |-> kind, text |-> text]

\* What the script writes before the button handler runs (lines 134-152).
PageTop ==
    << Msg("title", <<"Network Root Cause Analyst">>),
       Msg("markdown", <<"---">>),
       Msg("markdown", <<"Welcome to the **GenAI Root Cause Analyst**. ...">>),
       Msg("text_area", <<"Describe the network incident:">>) >>

\* What the script writes after the button handler (lines 167-168).
PageBottom ==
    << Msg("markdown", <<"---">>),
       Msg("caption", <<"Conceptual Demo powered by Streamlit and the Gemini API.">>) >>

KEY_MISSING_REPORT == <<"Unable to perform analysis. API key is missing.">>

GENERIC_FAILURE_REPORT ==
    <<"Unable to perform analysis. Please check your API key and network connection.">>

RecordFields == {"title", "content", "actionable_intelligence"}

NO_CONTEXT == [unset |-> "unset"]

NO_RESPONSE == [kind |-> "none", text |-> << >>]

NO_PREV == [cause |-> "none", report |-> << >>]

\* What the backend can do with the POST: answer 200 with the generated
\* text, refuse the connection, answer an error status, answer 200 with a
\* body that has no candidates[0].content.parts[0].text, or never answer.
Responses ==
    { [kind |-> "ok", text |-> t] : t \in GeneratedTexts }
    \cup { [kind |-> k, text |-> << >>] :
             k \in {"connection_error", "http_error", "malformed", "silent"} }

\* str(e) of the exception raised inside the try block: requests'
\* ConnectionError and HTTPError name the URL of the request, the KeyError of
\* result['candidates'] names the key.
ExceptionText(kind) ==
    CASE kind = "connection_error" ->
           <<"HTTPSConnectionPool(host='generativelanguage.googleapis.com', port=443): Max retries exceeded with url: /v1beta/models/",
             MODEL_NAME, ":generateContent?key=", GOOGLE_API_KEY,
             " (Caused by NewConnectionError(...))">>
      [] kind = "http_error" ->
           <<"403 Client Error: Forbidden for url: ">> \o API_URL
      [] kind = "malformed" -> <<"'candidates'">>

\* The failure condition of the current run.
Cause ==
    IF GOOGLE_API_KEY = "" THEN "missing_credential" ELSE response.kind

IsFailureReport(r) == r \in {KEY_MISSING_REPORT, GENERIC_FAILURE_REPORT}

-----------------------------------------------------------------------------
(* Initial state: the module is loaded, nothing runs *)

Init ==
    /\ GOOGLE_API_KEY \in Keys
    /\ incident = << >>
    /\ caller = "none"
    /\ pc = "Idle"
    /\ incident_type = << >>
    /\ context = NO_CONTEXT
    /\ prompt = << >>
    /\ response = NO_RESPONSE
    /\ report = << >>
    /\ calls = 0
    /\ ui = << >>
    /\ prev = NO_PREV

locals == <<incident_type, context, prompt, response, report>>

-----------------------------------------------------------------------------
(* The callers of agent_root_cause_analysis *)

\* A script run with the button pressed: the configuration is read again
\* (lines 13-16), the page is written and the handler of lines 155-165 runs
\* up to the call of agent_root_cause_analysis.
AnalyzeButton ==
    /\ pc = "Idle"
    /\ \E k \in Keys, t \in IncidentTexts :
         /\ GOOGLE_API_KEY' = k
         /\ incident' = t
         /\ IF Strip(t) = << >>
            THEN /\ ui' = PageTop
                          \o << Msg("warning", <<"Please enter a description of the incident to analyze.">>) >>
                          \o PageBottom
                 /\ pc' = "Idle"
            ELSE IF k = ""
            THEN /\ ui' = PageTop
                          \o << Msg("error", <<"Please set your GOOGLE_API_KEY as a Streamlit secret or environment variable.">>) >>
                          \o PageBottom
                 /\ pc' = "Idle"
            ELSE /\ ui' = PageTop \o << Msg("markdown", <<"### Analysis Report">>) >>
                 /\ pc' = "Start"
    /\ caller' = "button"
    /\ calls' = 0
    /\ UNCHANGED <<locals, prev>>

\* A script run without the button pressed (the page is opened, the text is
\* edited): the configuration is read again and only the page is written.
RenderPage ==
    /\ pc = "Idle"
    /\ GOOGLE_API_KEY' \in Keys
    /\ incident' \in IncidentTexts
    /\ ui' = PageTop \o PageBottom
    /\ caller' = "none"
    /\ calls' = 0
    /\ UNCHANGED <<pc, locals, prev>>

\* agent_root_cause_analysis(incident) called by code that imports the
\* module: the function takes any text and reads the module-level key.
DirectCall ==
    /\ pc = "Idle"
    /\ \E t \in IncidentTexts : incident' = t
    /\ caller' = "direct"
    /\ pc' = "Start"
    /\ calls' = 0
    /\ ui' = << >>
    /\ UNCHANGED <<GOOGLE_API_KEY, locals, prev>>

-----------------------------------------------------------------------------
(* agent_root_cause_analysis, one action per step of the function.  The   *)
(* time.sleep calls of lines 72, 83 and 125 change no state.               *)

\* Faulty variant: the function does not check the key before it starts.
Step1_NoKeyCheck ==
    /\ pc = "Start"
    /\ incident_type' = predict_incident_type(incident)
    /\ ui' = ui \o << Msg("write", <<"### Agentic Analysis Started">>),
                      Msg("info", <<"Prediction: This incident is likely related to **">>
                                  \o ReplaceUnderscore(incident_type') \o <<"**.">>) >>
    /\ pc' = "Classified"
    /\ UNCHANGED <<GOOGLE_API_KEY, incident, caller, context, prompt, response,
                   report, calls, prev>>

\* Faulty variant: a missing key is reported with the generic failure message.
Step1_GenericKeyMessage ==
    /\ pc = "Start"
    /\ IF GOOGLE_API_KEY = ""
       THEN /\ ui' = ui \o << Msg("error", <<"API key is not set. Please add it to your environment variables or Streamlit secrets.">>) >>
            /\ report' = GENERIC_FAILURE_REPORT
            /\ pc' = "Done"
            /\ UNCHANGED incident_type
       ELSE /\ incident_type' = predict_incident_type(incident)
            /\ ui' = ui \o << Msg("write", <<"### Agentic Analysis Started">>),
                              Msg("info", <<"Prediction: This incident is likely related to **">>
                                          \o ReplaceUnderscore(incident_type') \o <<"**.">>) >>
            /\ pc' = "Classified"
            /\ UNCHANGED report
    /\ UNCHANGED <<GOOGLE_API_KEY, incident, caller, context, prompt, response,
                   calls, prev>>

\* Lines 63-73: the key check, then step 1, the prediction.
Step1_Predict ==
    /\ pc = "Start"
    /\ IF GOOGLE_API_KEY = ""
       THEN /\ ui' = ui \o << Msg("error", <<"API key is not set. Please add it to your environment variables or Streamlit secrets.">>) >>
            /\ report' = KEY_MISSING_REPORT
            /\ pc' = "Done"
            /\ UNCHANGED incident_type
       ELSE /\ incident_type' = predict_incident_type(incident)
            /\ ui' = ui \o << Msg("write", <<"### Agentic Analysis Started">>),
                              Msg("info", <<"Prediction: This incident is likely related to **">>
                                          \o ReplaceUnderscore(incident_type') \o <<"**.">>) >>
            /\ pc' = "Classified"
            /\ UNCHANGED report
    /\ UNCHANGED <<GOOGLE_API_KEY, incident, caller, context, prompt, response,
                   calls, prev>>

\* Faulty variant: a tag without an entry ends the run instead of using the default.
Step2_StopOnMiss ==
    /\ pc = "Classified"
    /\ IF incident_type \in DOMAIN KNOWLEDGE_BASE
       THEN /\ context' = lookup(incident_type)
            /\ ui' = ui \o << Msg("success", <<"Relevant knowledge found.">>) >>
            /\ pc' = "Retrieved"
            /\ UNCHANGED report
       ELSE /\ ui' = ui \o << Msg("error", <<"No knowledge found.">>) >>
            /\ report' = GENERIC_FAILURE_REPORT
            /\ pc' = "Done"
            /\ UNCHANGED context
    /\ UNCHANGED <<GOOGLE_API_KEY, incident, caller, incident_type, prompt,
                   response, calls, prev>>

\* Lines 76-84: step 2, the retrieval.
Step2_Retrieve ==
    /\ pc = "Classified"
    /\ context' = lookup(incident_type)
    /\ ui' = ui \o << Msg("success", <<"Relevant knowledge found.">>) >>
    /\ pc' = "Retrieved"
    /\ UNCHANGED <<GOOGLE_API_KEY, incident, caller, incident_type, prompt,
                   response, report, calls, prev>>

\* Lines 87-106: the prompt is built.  context['title'] raises a KeyError
\* outside the try block when the record has no such field.
BuildPrompt ==
    /\ pc = "Retrieved"
    /\ IF RecordFields \subseteq DOMAIN context
       THEN /\ prompt' =
                 <<"Act as a senior network engineer and root cause analyst. ... **Incident Description:** ">>
                 \o incident
                 \o <<" **Retrieved Knowledge:** Title: ", context.title,
                      " Content: ", context.content,
                      " Actionable Intelligence: ", context.actionable_intelligence,
                      " Your response must include the following sections: 1. **Identified Problem:** ... 2. **Root Cause Analysis:** ... 3. **Actionable Intelligence:** ...">>
            /\ pc' = "PromptBuilt"
       ELSE /\ pc' = "Fault"
            /\ UNCHANGED prompt
    /\ UNCHANGED <<GOOGLE_API_KEY, incident, caller, incident_type, context,
                   response, report, calls, ui, prev>>

\* Line 121: requests.post(API_URL, ...) is sent, without a timeout; the
\* backend decides what comes back.
PostRequest ==
    /\ pc = "PromptBuilt"
    /\ calls' = calls + 1
    /\ response' \in Responses
    /\ pc' = "Generated"
    /\ UNCHANGED <<GOOGLE_API_KEY, incident, caller, incident_type, context,
                   prompt, report, ui, prev>>

\* Faulty variant: a failed call is sent again.
HandleResponse_Retry ==
    /\ pc = "Generated"
    /\ response.kind # "silent"
    /\ IF response.kind = "ok"
       THEN /\ ui' = ui \o << Msg("success", <<"Analysis complete!">>) >>
            /\ report' = response.text
            /\ pc' = "Done"
       ELSE /\ pc' = "PromptBuilt"
            /\ UNCHANGED <<ui, report>>
    /\ UNCHANGED <<GOOGLE_API_KEY, incident, caller, incident_type, context,
                   prompt, response, calls, prev>>

\* Faulty variant: only requests' exceptions are caught (except RequestException).
HandleResponse_NarrowExcept ==
    /\ pc = "Generated"
    /\ response.kind # "silent"
    /\ IF response.kind = "ok"
       THEN /\ ui' = ui \o << Msg("success", <<"Analysis complete!">>) >>
            /\ report' = response.text
            /\ pc' = "Done"
       ELSE IF response.kind = "malformed"
       THEN /\ pc' = "Fault"
            /\ UNCHANGED <<ui, report>>
       ELSE /\ ui' = ui \o << Msg("error", <<"Error during LLM generation: ">>
                                           \o ExceptionText(response.kind)) >>
            /\ report' = GENERIC_FAILURE_REPORT
            /\ pc' = "Done"
    /\ UNCHANGED <<GOOGLE_API_KEY, incident, caller, incident_type, context,
                   prompt, response, calls, prev>>

\* Lines 121-131: the call returns or raises; every exception is caught.
HandleResponse ==
    /\ pc = "Generated"
    /\ response.kind # "silent"
    /\ IF response.kind = "ok"
       THEN /\ ui' = ui \o << Msg("success", <<"Analysis complete!">>) >>
            /\ report' = response.text
       ELSE /\ ui' = ui \o << Msg("error", <<"Error during LLM generation: ">>
                                           \o ExceptionText(response.kind)) >>
            /\ report' = GENERIC_FAILURE_REPORT
    /\ pc' = "Done"
    /\ UNCHANGED <<GOOGLE_API_KEY, incident, caller, incident_type, context,
                   prompt, response, calls, prev>>

\* The function has returned: the button handler writes the report and the
\* script ends (lines 165-168); the function's locals are gone.
Return ==
    /\ pc = "Done"
    /\ ui' = IF caller = "button"
             THEN ui \o << Msg("markdown", report) >> \o PageBottom
             ELSE ui
    /\ prev' = IF IsFailureReport(report)
               THEN [cause |-> Cause, report |-> report]
               ELSE prev
    /\ incident_type' = << >>
    /\ context' = NO_CONTEXT
    /\ prompt' = << >>
    /\ response' = NO_RESPONSE
    /\ report' = << >>
    /\ pc' = "Idle"
    /\ UNCHANGED <<GOOGLE_API_KEY, incident, caller, calls>>

Next ==
    \/ RenderPage
    \/ AnalyzeButton
    \/ DirectCall
    \/ Step1_Predict
    \/ Step2_Retrieve
    \/ BuildPrompt
    \/ PostRequest
    \/ HandleResponse
    \/ Return

Spec == Init /\ [][Next]_vars

\* The interpreter runs the function's next statement, and a response that
\* arrives is handled; nothing obliges a user to start a run or the backend
\* to answer.
FairSpec ==
    /\ Spec
    /\ WF_vars(Step1_Predict)
    /\ WF_vars(Step2_Retrieve)
    /\ WF_vars(BuildPrompt)
    /\ WF_vars(PostRequest)
    /\ WF_vars(HandleResponse)
    /\ WF_vars(Return)

-----------------------------------------------------------------------------
(* predict_incident_type on its own *)

ClassifyInit ==
    /\ GOOGLE_API_KEY = ""
    /\ incident \in Texts(Fragments, MaxFrags)
    /\ caller = "none"
    /\ pc = "classify"
    /\ incident_type = << >>
    /\ context = NO_CONTEXT
    /\ prompt = << >>
    /\ response = NO_RESPONSE
    /\ report = << >>
    /\ calls = 0
    /\ ui = << >>
    /\ prev = NO_PREV

Classify ==
    /\ pc = "classify"
    /\ incident_type' = predict_incident_type(incident)
    /\ pc' = "classified"
    /\ UNCHANGED <<GOOGLE_API_KEY, incident, caller, context, prompt, response,
                   report, calls, ui, prev>>

ClassifyNext == Classify

ClassifySpec == ClassifyInit /\ [][ClassifyNext]_vars

-----------------------------------------------------------------------------
(* Vocabulary of the properties *)

Tags == {HIGH_LATENCY, PACKET_LOSS, SERVICE_UNREACHABLE, UNKNOWN}

SameLetter(a, b) ==
    \/ a = b
    \/ \E n \in DOMAIN UpperCase : {a, b} = {UpperCase[n], LowerCase[n]}

\* kw occurs in s, letter case ignored
ContainsAnyCase(s, kw) ==
    \E i \in 1..Len(s) :
        /\ i + Len(kw) - 1 <= Len(s)
        /\ \A j \in 1..Len(kw) : SameLetter(s[i + j - 1], kw[j])

HasUpperCase(s) == \E i \in DOMAIN s : \E n \in DOMAIN UpperCase : s[i] = UpperCase[n]

MentionsLatency(s) == ContainsAnyCase(s, kw_latency) \/ ContainsAnyCase(s, kw_slow)

MentionsLaterRule(s) ==
    \/ ContainsAnyCase(s, kw_packet) \/ ContainsAnyCase(s, kw_drop)
    \/ ContainsAnyCase(s, kw_unreachable) \/ ContainsAnyCase(s, kw_down)

\* the atom k is part of the message text
HasAtom(text, k) == \E i \in DOMAIN text : text[i] = k

BackendFailures == {"connection_error", "http_error", "malformed"}

InFlight == {"Start", "Classified", "Retrieved", "PromptBuilt"}

-----------------------------------------------------------------------------
(* Properties *)

\* C1: with no credential configured a run ends with the missing-key failure
\* report, does none of the later steps and makes no outbound call.
C1_NoKeyFailsFast ==
    GOOGLE_API_KEY = "" =>
        /\ calls = 0
        /\ pc \in {"Idle", "Start", "Done"}
        /\ response = NO_RESPONSE
        /\ pc = "Done" => report = KEY_MISSING_REPORT

C1_Witness ==
    /\ pc = "Done"
    /\ GOOGLE_API_KEY = ""
    /\ Strip(incident) # << >>
    /\ report = KEY_MISSING_REPORT
    /\ calls = 0

\* C2 (as stated): two runs that fail for different conditions end with
\* different failure reports.
C2_DistinctKinds ==
    (pc = "Done" /\ IsFailureReport(report) /\ prev # NO_PREV /\ prev.cause # Cause)
        => report # prev.report

\* C2 (amended): a missing credential ends with its own report; a connection
\* failure, an error status and a malformed body all end with one and the
\* same generic report, so two failed runs differ in their report exactly
\* when one of them, and only one, failed for the missing credential.
C2_TwoFailureReports ==
    (pc = "Done" /\ IsFailureReport(report)) =>
        /\ Cause \in BackendFailures \cup {"missing_credential"}
        /\ Cause = "missing_credential" <=> report = KEY_MISSING_REPORT
        /\ Cause \in BackendFailures <=> report = GENERIC_FAILURE_REPORT
        /\ prev # NO_PREV =>
             (report # prev.report <=>
                (Cause = "missing_credential") # (prev.cause = "missing_credential"))

C2_Witness ==
    /\ pc = "Done"
    /\ prev.cause = "connection_error"
    /\ Cause = "malformed"
    /\ report = prev.report

\* C3 (as stated): a malformed body ends with a failure of its own kind,
\* told apart from a connection failure and from an error status.
C3_MalformedKind ==
    (pc = "Done" /\ response.kind = "malformed"
       /\ prev.cause \in {"connection_error", "http_error"})
        => report # prev.report

\* C3 (amended): a malformed body ends in Done with the generic failure
\* report, and whatever the backend answers the run returns a report: no
\* exception leaves the function.
C3_MalformedHandled ==
    /\ pc # "Fault"
    /\ response.kind \in BackendFailures =>
         /\ pc \in {"Generated", "Done"}
         /\ pc = "Done" =>
              /\ report = GENERIC_FAILURE_REPORT
              /\ ui[Len(ui)] = Msg("error", <<"Error during LLM generation: ">>
                                            \o ExceptionText(response.kind))

C3_Witness ==
    /\ pc = "Done"
    /\ response.kind = "malformed"
    /\ report = GENERIC_FAILURE_REPORT

\* C4: no message written to the user interface and no returned report
\* contains the API key.
C4_KeyNeverShown ==
    GOOGLE_API_KEY # "" =>
        /\ \A i \in DOMAIN ui : ~ HasAtom(ui[i].text, GOOGLE_API_KEY)
        /\ ~ HasAtom(report, GOOGLE_API_KEY)

\* C5 (as stated): every run eventually reaches Done.
C5_EveryRunReachesDone == (pc = "Start") ~> (pc = "Done")

\* C5 (amended): the call has no timeout: a run reaches the outbound call or
\* Done, and reaches Done once the backend answers or the connection fails;
\* a run whose call is never answered stays in Generated.
C5_AnsweredRunReachesDone ==
    /\ (pc \in InFlight) ~> (pc \in {"Generated", "Done"})
    /\ (pc = "Generated" /\ response.kind # "silent") ~> (pc = "Done")
    /\ [][(pc = "Generated" /\ response.kind = "silent") => pc' = "Generated"]_vars

C5_Witness ==
    /\ pc = "Done"
    /\ calls = 1
    /\ response.kind = "connection_error"

StageOrder ==
    { <<"Start", "Classified">>, <<"Classified", "Retrieved">>,
      <<"Retrieved", "PromptBuilt">>, <<"PromptBuilt", "Generated">>,
      <<"Generated", "Done">> }

RunBoundary == { <<"Idle", "Start">>, <<"Done", "Idle">> }

\* C6 (as stated): a run moves through Start, Classified, Retrieved,
\* PromptBuilt, Generated, Done in this order and in no other way.
C6_FixedOrder ==
    [][pc' # pc => <<pc, pc'>> \in StageOrder \cup RunBoundary]_vars

\* C6 (amended): the stages follow the fixed order, except that a run with
\* no credential goes from Start straight to Done with the missing-key
\* failure; a failed call goes from Generated to Done with a failure report.
C6_OrderOrMissingKey ==
    [][pc' # pc =>
         \/ /\ <<pc, pc'>> \in StageOrder \cup RunBoundary
            /\ (pc = "Start" => GOOGLE_API_KEY # "")
            /\ (pc = "Generated" /\ response.kind # "ok"
                   => report' = GENERIC_FAILURE_REPORT)
         \/ /\ <<pc, pc'>> = <<"Start", "Done">>
            /\ GOOGLE_API_KEY = ""
            /\ report' = KEY_MISSING_REPORT]_vars

C6_Witness ==
    /\ pc = "Done"
    /\ GOOGLE_API_KEY = ""
    /\ incident_type = << >>
    /\ context = NO_CONTEXT
    /\ prompt = << >>

\* C7: a run makes at most one outbound call: none before the prompt is
\* built, one once the call is made, and no second one after a failure.
C7_AtMostOneCall ==
    /\ calls <= 1
    /\ pc \in InFlight => calls = 0
    /\ pc = "Generated" => calls = 1
    /\ pc = "Done" => calls = (IF GOOGLE_API_KEY = "" THEN 0 ELSE 1)

C7_Witness ==
    /\ pc = "Done"
    /\ response.kind = "http_error"
    /\ report = GENERIC_FAILURE_REPORT
    /\ calls = 1

\* C8: a text that contains "latency" or "slow", in any letter case, is
\* classified as high latency, whatever later-rule keywords it contains too.
C8_LatencyFirst ==
    (pc = "classified" /\ MentionsLatency(incident))
        => incident_type = HIGH_LATENCY

C8_Witness ==
    /\ pc = "classified"
    /\ MentionsLatency(incident)
    /\ MentionsLaterRule(incident)
    /\ HasUpperCase(incident)
    /\ incident_type = HIGH_LATENCY

\* C9: the tag is always one of the four tags, and it is unknown for a text
\* that contains none of the keywords in any letter case.
C9_UnknownFallback ==
    pc = "classified" =>
        /\ incident_type \in Tags
        /\ (~ MentionsLatency(incident) /\ ~ MentionsLaterRule(incident))
              => incident_type = UNKNOWN

C9_Witness ==
    /\ pc = "classified"
    /\ Len(incident) > 3
    /\ ~ MentionsLatency(incident)
    /\ ~ MentionsLaterRule(incident)
    /\ incident_type = UNKNOWN

\* C10: the lookup yields a record with a title, a content and an action
\* for every tag, and the default record for a tag without an entry.
C10_LookupTotal ==
    /\ \A tag \in Tags :
         /\ DOMAIN lookup(tag) = RecordFields
         /\ \A f \in RecordFields : lookup(tag)[f] # ""
    /\ pc \in {"Retrieved", "PromptBuilt", "Generated"} =>
         /\ DOMAIN context = RecordFields
         /\ incident_type \notin DOMAIN KNOWLEDGE_BASE => context = DEFAULT_RECORD

C10_Witness ==
    /\ pc = "Retrieved"
    /\ incident_type = UNKNOWN
    /\ context = DEFAULT_RECORD

====
